---- MODULE Spec2Model ----
\* Model of the release PipelineRun builder of tekton/pipeline_run.go.
\*
\* Strings are sequences of tokens: "" is <<>>, concatenation is \o.  Where the
\* code looks at single characters (unicode.ToLower, strings.ToLower) a token is
\* one character; a literal that the code only copies or compares is one token.
EXTENDS Naturals, Sequences, FiniteSets, TLC

\* ---------------------------------------------------------------- bounds
MaxCalls == 2
MaxStrategyParams == 2
MaxObjects == 2

\* ---------------------------------------------------------------- strings
Empty == <<>>

Str(t) == <<t>>

SeqsUpTo(S, n) == UNION {[1..k -> S] : k \in 0..n}

\* unicode.ToLower on the characters used by the inputs below
ToLower(c) ==
    CASE c = "E" -> "e"
      [] c = "C" -> "c"
      [] c = "P" -> "p"
      [] c = "S" -> "s"
      [] OTHER -> c

\* strings.ToLower
StringsToLower(s) == [i \in 1..Len(s) |-> ToLower(s[i])]

\* strings.HasPrefix
HasPrefix(s, p) == Len(s) >= Len(p) /\ SubSeq(s, 1, Len(p)) = p

\* ---------------------------------------------------------------- constants
PipelineTypeRelease == Str("release")

ParamTypeString == "string"
ParamTypeArray == "array"

\* types.Separator
Separator == "/"

\* metadata package: label keys, finalizer and the propagated prefix
PipelinesAsCodePrefix == Str("pac.test.appstudio.openshift.io")
PipelinesTypeLabel == <<"pipelines.appstudio.openshift.io", "/", "type">>
ReleaseNameLabel == <<"release.appstudio.openshift.io", "/", "name">>
ReleaseNamespaceLabel == <<"release.appstudio.openshift.io", "/", "namespace">>
ApplicationNameLabel == <<"appstudio.openshift.io", "/", "application">>
ReleaseFinalizer == <<"appstudio.openshift.io", "/", "release-finalizer">>

\* operator-lib handler: owner annotation keys
NamespacedNameAnnotation == <<"operator-sdk", "/", "primary-resource">>
TypeAnnotation == <<"operator-sdk", "/", "primary-resource-type">>

gitResolverFields ==
    << Str("verify_ec_task_git_url"),
       Str("verify_ec_task_git_revision"),
       Str("verify_ec_task_git_pathInRepo") >>

\* ---------------------------------------------------------------- inputs
EmptyMap == [k \in {} |-> Empty]

PacSha == PipelinesAsCodePrefix \o <<"/", "sha">>
PacUrl == PipelinesAsCodePrefix \o <<"/", "url">>
TeamKey == Str("team")

ReleaseGroup == Str("appstudio.redhat.com")

\* v1alpha1.Release: identity plus label and annotation maps.  The third one
\* has no kind set, as an object decoded without its type information has.
Releases ==
    { [Name |-> Str("rel-1"), Namespace |-> Str("ns-1"), Kind |-> Str("Release"),
       Labels |-> (PacSha :> Str("abc")) @@ (TeamKey :> Str("blue")),
       Annotations |-> (PacUrl :> Str("http://git")) @@ (TeamKey :> Str("blue"))],
      [Name |-> Str("rel-2"), Namespace |-> Str("ns-2"), Kind |-> Str("Release"),
       Labels |-> EmptyMap, Annotations |-> EmptyMap],
      [Name |-> Str("rel-3"), Namespace |-> Str("ns-1"), Kind |-> Empty,
       Labels |-> EmptyMap, Annotations |-> EmptyMap] }

ApplicationNames == {Str("app")}

\* ecapiv1alpha1.EnterpriseContractPolicy: Kind is a sequence of characters
PolicyKinds == {Empty, <<"E">>, <<"E", "C", "P">>, <<"p", "E">>}

PolicySpecs == {[Description |-> Empty], [Description |-> Str("strict")]}

Policies == [Kind : PolicyKinds, Spec : PolicySpecs]

\* corev1.ConfigMap: Data maps some of the keys to values
ConfigMaps ==
    { [Data |-> EmptyMap],
      [Data |-> (gitResolverFields[1] :> Str("https://git/ec")) @@
                (gitResolverFields[2] :> Str("main"))] }

\* client.Object: kind, namespace and name
Objects ==
    { [Kind |-> <<"S", "n">>, Namespace |-> Str("ns-1"), Name |-> Str("snap")],
      [Kind |-> <<"P", "l">>, Namespace |-> Empty, Name |-> Str("plan")] }

ObjectLists == SeqsUpTo(Objects, MaxObjects)

\* v1alpha1.Params: an entry with a single value, and one with both a single
\* value and a list of values
StrategyParamEntries ==
    { [Name |-> Str("verbose"), Value |-> Str("true"), Values |-> Empty],
      [Name |-> Str("images"), Value |-> Str("one"),
       Values |-> <<Str("img-a"), Str("img-b")>>] }

Strategies ==
    [Pipeline : {Empty, Str("deploy")},
     Bundle : {Empty, Str("quay.io/foo:v1")},
     Params : SeqsUpTo(StrategyParamEntries, MaxStrategyParams),
     PersistentVolumeClaim : {Empty, Str("pvc-1")},
     ServiceAccount : {Str("release-sa")}]

\* arguments of a direct WithExtraParam call
ExtraParamNames == {Str("verbose")}

ExtraParamValues ==
    { [Type |-> ParamTypeString, StringVal |-> Str("false"), ArrayVal |-> Empty],
      [Type |-> ParamTypeArray, StringVal |-> Empty, ArrayVal |-> <<Str("x")>>] }

WorkspaceNames == {Empty, Str("release-ws")}

ClaimNames == {Empty, Str("pvc-1")}

ServiceAccounts == {Empty, Str("release-sa")}

Prefixes == {Str("release")}

Namespaces == {Str("ns-1")}

\* the process environment: DEFAULT_RELEASE_WORKSPACE_NAME, DEFAULT_RELEASE_PVC
Environments ==
    { [DEFAULT_RELEASE_WORKSPACE_NAME |-> Empty, DEFAULT_RELEASE_PVC |-> Str("default-pvc")],
      [DEFAULT_RELEASE_WORKSPACE_NAME |-> Str("release-ws"), DEFAULT_RELEASE_PVC |-> Empty],
      [DEFAULT_RELEASE_WORKSPACE_NAME |-> Str("release-ws"),
       DEFAULT_RELEASE_PVC |-> Str("default-pvc")] }

\* ---------------------------------------------------------------- state
VARIABLES
    generateName,        \* ObjectMeta.GenerateName
    namespace,           \* ObjectMeta.Namespace
    labels,              \* ObjectMeta.Labels
    annotations,         \* ObjectMeta.Annotations
    finalizers,          \* ObjectMeta.Finalizers
    params,              \* Spec.Params
    pipelineRef,         \* Spec.PipelineRef: <<>> is nil, <<ref>> points to ref
    workspaces,          \* Spec.Workspaces
    serviceAccountName,  \* Spec.ServiceAccountName
    env,                 \* the process environment read by os.Getenv
    panicked,            \* a mutator panicked: the call never returned
    lastCall,            \* the most recent call on the builder and its arguments
    ncalls               \* number of mutator calls made so far

meta == <<generateName, namespace, labels, annotations, finalizers>>

spec == <<params, pipelineRef, workspaces, serviceAccountName>>

vars == <<meta, spec, env, panicked, lastCall, ncalls>>

\* ---------------------------------------------------------------- helpers
\* m with every entry of add written into it (a later write wins)
MapMerge(m, add) ==
    [k \in DOMAIN m \cup DOMAIN add |-> IF k \in DOMAIN add THEN add[k] ELSE m[k]]

\* a Go map read: the zero value for a missing key
MapGet(m, k) == IF k \in DOMAIN m THEN m[k] ELSE Empty

\* metadata.GetLabelsWithPrefix / GetAnnotationsWithPrefix
FilterByPrefix(m, prefix) ==
    [k \in {x \in DOMAIN m : HasPrefix(x, prefix)} |-> m[k]]

\* json.Marshal of the policy spec; the description is omitted when empty
Marshal(policySpec) ==
    IF policySpec.Description = Empty
    THEN <<"{", "}">>
    ELSE <<"{", "description", ":">> \o policySpec.Description \o <<"}">>

\* ExtraParam as it would be if a parameter of the same name were replaced
ExtraParamReplacing(ps, name, value) ==
    IF \E i \in DOMAIN ps : ps[i].Name = name
    THEN [i \in DOMAIN ps |->
             IF ps[i].Name = name THEN [Name |-> name, Value |-> value] ELSE ps[i]]
    ELSE Append(ps, [Name |-> name, Value |-> value])

\* the append of WithExtraParam
ExtraParam(ps, name, value) == Append(ps, [Name |-> name, Value |-> value])

StringValue(s) == [Type |-> ParamTypeString, StringVal |-> s, ArrayVal |-> Empty]

\* the loop of WithEnterpriseContractConfigMap over gitResolverFields[i..]
RECURSIVE ConfigMapLoop(_, _, _)
ConfigMapLoop(ps, data, i) ==
    IF i > Len(gitResolverFields)
    THEN ps
    ELSE ConfigMapLoop(
             ExtraParam(ps, gitResolverFields[i],
                        StringValue(MapGet(data, gitResolverFields[i]))),
             data, i + 1)

\* the loop of WithObjectReferences
RECURSIVE ObjectLoop(_, _)
ObjectLoop(ps, objects) ==
    IF objects = <<>>
    THEN ps
    ELSE LET object == Head(objects)
         IN ObjectLoop(
                ExtraParam(ps, StringsToLower(object.Kind),
                           StringValue(object.Namespace \o <<Separator>> \o object.Name)),
                Tail(objects))

\* the loop of WithReleaseStrategy; valueType is declared before the loop and
\* keeps its value from one iteration to the next
RECURSIVE StrategyLoop(_, _, _)
StrategyLoop(ps, sparams, valueType) ==
    IF sparams = <<>>
    THEN ps
    ELSE LET param == Head(sparams)
             vt == IF Len(param.Values) > 0 THEN ParamTypeArray ELSE valueType
         IN StrategyLoop(
                ExtraParam(ps, param.Name,
                           [Type |-> vt, StringVal |-> param.Value,
                            ArrayVal |-> param.Values]),
                Tail(sparams), vt)

\* getBundleResolver with the kind and name parameters in the other order
getBundleResolverReordered(bundle, pipeline) ==
    [Resolver |-> Str("bundles"),
     Params |-> << [Name |-> Str("bundle"), Value |-> StringValue(bundle)],
                   [Name |-> Str("name"), Value |-> StringValue(pipeline)],
                   [Name |-> Str("kind"), Value |-> StringValue(Str("pipeline"))] >>]

getBundleResolver(bundle, pipeline) ==
    [Resolver |-> Str("bundles"),
     Params |-> << [Name |-> Str("bundle"), Value |-> StringValue(bundle)],
                   [Name |-> Str("kind"), Value |-> StringValue(Str("pipeline"))],
                   [Name |-> Str("name"), Value |-> StringValue(pipeline)] >>]

NoResolver == [Resolver |-> Empty, Params |-> <<>>]

getPipelineRef(strategy) ==
    IF strategy.Bundle = Empty
    THEN [Name |-> strategy.Pipeline, ResolverRef |-> NoResolver]
    ELSE [Name |-> Empty,
          ResolverRef |-> getBundleResolver(strategy.Bundle, strategy.Pipeline)]

\* Workspace as it would be if only a binding with both values empty were skipped
WorkspaceBothEmpty(ws, name, persistentVolumeClaim) ==
    IF name = Empty /\ persistentVolumeClaim = Empty
    THEN ws
    ELSE Append(ws, [Name |-> name, ClaimName |-> persistentVolumeClaim])

\* the effect of WithWorkspace on Spec.Workspaces
Workspace(ws, name, persistentVolumeClaim) ==
    IF name = Empty \/ persistentVolumeClaim = Empty
    THEN ws
    ELSE Append(ws, [Name |-> name, ClaimName |-> persistentVolumeClaim])

\* libhandler.SetOwnerAnnotations: fails, changing nothing, for an owner
\* without a name or without a kind
SetOwnerAnnotations(owner, anns) ==
    IF owner.Name = Empty \/ owner.Kind = Empty
    THEN anns
    ELSE MapMerge(anns,
             (NamespacedNameAnnotation :> (owner.Namespace \o <<"/">> \o owner.Name)) @@
             (TypeAnnotation :> (owner.Kind \o <<".">> \o ReleaseGroup)))

\* controllerutil.AddFinalizer: appends unless already present
AddFinalizer(fs, finalizer) ==
    IF \E i \in DOMAIN fs : fs[i] = finalizer THEN fs ELSE Append(fs, finalizer)

\* ---------------------------------------------------------------- the builder
\* NewReleasePipelineRun(prefix, namespace)
Init ==
    /\ \E prefix \in Prefixes : generateName = prefix \o <<"-">>
    /\ namespace \in Namespaces
    /\ labels = EmptyMap
    /\ annotations = EmptyMap
    /\ finalizers = <<>>
    /\ params = <<>>
    /\ pipelineRef = <<>>
    /\ workspaces = <<>>
    /\ serviceAccountName = Empty
    /\ env \in Environments
    /\ panicked = FALSE
    /\ lastCall = [op |-> "NewReleasePipelineRun"]
    /\ ncalls = 0

CanCall == ~panicked /\ ncalls < MaxCalls

Called(op, arg) ==
    /\ lastCall' = [op |-> op, arg |-> arg]
    /\ ncalls' = ncalls + 1

WithEnterpriseContractConfigMap ==
    /\ CanCall
    /\ \E ecConfig \in ConfigMaps :
        /\ params' = ConfigMapLoop(params, ecConfig.Data, 1)
        /\ Called("WithEnterpriseContractConfigMap", ecConfig)
    /\ UNCHANGED <<meta, pipelineRef, workspaces, serviceAccountName, env, panicked>>

WithEnterpriseContractPolicy ==
    /\ CanCall
    /\ \E enterpriseContractPolicy \in Policies :
        LET policyJson == Marshal(enterpriseContractPolicy.Spec)
            policyKindRunes == enterpriseContractPolicy.Kind
        IN /\ IF Len(policyKindRunes) = 0
              THEN \* policyKindRunes[0]: index out of range
                   /\ panicked' = TRUE
                   /\ params' = params
              ELSE /\ panicked' = FALSE
                   /\ params' = ExtraParam(params,
                          <<ToLower(policyKindRunes[1])>> \o Tail(policyKindRunes),
                          StringValue(policyJson))
           /\ Called("WithEnterpriseContractPolicy", enterpriseContractPolicy)
    /\ UNCHANGED <<meta, pipelineRef, workspaces, serviceAccountName, env>>

WithExtraParam ==
    /\ CanCall
    /\ \E name \in ExtraParamNames, value \in ExtraParamValues :
        /\ params' = ExtraParam(params, name, value)
        /\ Called("WithExtraParam", [name |-> name, value |-> value])
    /\ UNCHANGED <<meta, pipelineRef, workspaces, serviceAccountName, env, panicked>>

WithObjectReferences ==
    /\ CanCall
    /\ \E objects \in ObjectLists :
        /\ params' = ObjectLoop(params, objects)
        /\ Called("WithObjectReferences", objects)
    /\ UNCHANGED <<meta, pipelineRef, workspaces, serviceAccountName, env, panicked>>

\* WithOwner as it would be if it moved the run into the owner's namespace
WithOwnerMovingNamespace ==
    /\ CanCall
    /\ \E release \in Releases :
        /\ annotations' = SetOwnerAnnotations(release, annotations)
        /\ finalizers' = AddFinalizer(finalizers, ReleaseFinalizer)
        /\ namespace' = release.Namespace
        /\ Called("WithOwner", release)
    /\ UNCHANGED <<generateName, labels, spec, env, panicked>>

WithOwner ==
    /\ CanCall
    /\ \E release \in Releases :
        /\ annotations' = SetOwnerAnnotations(release, annotations)
        /\ finalizers' = AddFinalizer(finalizers, ReleaseFinalizer)
        /\ Called("WithOwner", release)
    /\ UNCHANGED <<generateName, namespace, labels, spec, env, panicked>>

FixedLabels(release, applicationName) ==
    (PipelinesTypeLabel :> PipelineTypeRelease) @@
    (ReleaseNameLabel :> release.Name) @@
    (ReleaseNamespaceLabel :> release.Namespace) @@
    (ApplicationNameLabel :> applicationName)

\* WithReleaseAndApplicationMetadata as it would be if it added the fixed labels
\* to the label mapping instead of replacing the mapping
WithReleaseAndApplicationMetadataKeepingLabels ==
    /\ CanCall
    /\ \E release \in Releases, applicationName \in ApplicationNames :
        /\ labels' = MapMerge(MapMerge(labels, FixedLabels(release, applicationName)),
                              FilterByPrefix(release.Labels, PipelinesAsCodePrefix))
        /\ annotations' = MapMerge(annotations,
               FilterByPrefix(release.Annotations, PipelinesAsCodePrefix))
        /\ Called("WithReleaseAndApplicationMetadata",
                  [release |-> release, applicationName |-> applicationName])
    /\ UNCHANGED <<generateName, namespace, finalizers, spec, env, panicked>>

\* WithReleaseAndApplicationMetadata as it would be if it replaced the annotation
\* mapping, as it does the label mapping
WithReleaseAndApplicationMetadataReplacingAnnotations ==
    /\ CanCall
    /\ \E release \in Releases, applicationName \in ApplicationNames :
        /\ labels' = MapMerge(FixedLabels(release, applicationName),
                              FilterByPrefix(release.Labels, PipelinesAsCodePrefix))
        /\ annotations' = FilterByPrefix(release.Annotations, PipelinesAsCodePrefix)
        /\ Called("WithReleaseAndApplicationMetadata",
                  [release |-> release, applicationName |-> applicationName])
    /\ UNCHANGED <<generateName, namespace, finalizers, spec, env, panicked>>

WithReleaseAndApplicationMetadata ==
    /\ CanCall
    /\ \E release \in Releases, applicationName \in ApplicationNames :
        /\ labels' = MapMerge(FixedLabels(release, applicationName),
                              FilterByPrefix(release.Labels, PipelinesAsCodePrefix))
        /\ annotations' = MapMerge(annotations,
               FilterByPrefix(release.Annotations, PipelinesAsCodePrefix))
        /\ Called("WithReleaseAndApplicationMetadata",
                  [release |-> release, applicationName |-> applicationName])
    /\ UNCHANGED <<generateName, namespace, finalizers, spec, env, panicked>>

WithReleaseStrategy ==
    /\ CanCall
    /\ \E strategy \in Strategies :
        /\ pipelineRef' = <<getPipelineRef(strategy)>>
        /\ params' = StrategyLoop(params, strategy.Params, ParamTypeString)
        /\ workspaces' =
              IF strategy.PersistentVolumeClaim = Empty
              THEN Workspace(workspaces, env.DEFAULT_RELEASE_WORKSPACE_NAME,
                             env.DEFAULT_RELEASE_PVC)
              ELSE Workspace(workspaces, env.DEFAULT_RELEASE_WORKSPACE_NAME,
                             strategy.PersistentVolumeClaim)
        /\ serviceAccountName' = strategy.ServiceAccount
        /\ Called("WithReleaseStrategy", strategy)
    /\ UNCHANGED <<meta, env, panicked>>

WithServiceAccount ==
    /\ CanCall
    /\ \E serviceAccount \in ServiceAccounts :
        /\ serviceAccountName' = serviceAccount
        /\ Called("WithServiceAccount", serviceAccount)
    /\ UNCHANGED <<meta, params, pipelineRef, workspaces, env, panicked>>

WithWorkspace ==
    /\ CanCall
    /\ \E name \in WorkspaceNames, persistentVolumeClaim \in ClaimNames :
        /\ workspaces' = Workspace(workspaces, name, persistentVolumeClaim)
        /\ Called("WithWorkspace",
                  [name |-> name, persistentVolumeClaim |-> persistentVolumeClaim])
    /\ UNCHANGED <<meta, params, pipelineRef, serviceAccountName, env, panicked>>

Next ==
    \/ WithEnterpriseContractConfigMap
    \/ WithEnterpriseContractPolicy
    \/ WithExtraParam
    \/ WithObjectReferences
    \/ WithOwner
    \/ WithReleaseAndApplicationMetadata
    \/ WithReleaseStrategy
    \/ WithServiceAccount
    \/ WithWorkspace

Spec == Init /\ [][Next]_vars

\* ---------------------------------------------------------------- properties
IsCall(op) == lastCall.op = op

\* the parameters appended by the most recent call, given how many it appended
Appended(n) == SubSeq(params, Len(params) - n + 1, Len(params))

CountBinding(ws, name, claim) ==
    Cardinality({i \in DOMAIN ws : ws[i].Name = name /\ ws[i].ClaimName = claim})

MarkerCount == Cardinality({i \in DOMAIN finalizers : finalizers[i] = ReleaseFinalizer})

OwnerReference(release) == release.Namespace \o <<"/">> \o release.Name

OwnerIn(anns, release) ==
    /\ NamespacedNameAnnotation \in DOMAIN anns
    /\ anns[NamespacedNameAnnotation] = OwnerReference(release)

HasOwner(release) == OwnerIn(annotations, release)

Identified(release) == release.Name # Empty /\ release.Kind # Empty

\* C1: after WithReleaseStrategy, the parameter appended for each entry of the
\* strategy's parameter list is list-shaped with the entry's list when that list
\* is non-empty, and scalar-shaped with the entry's single value when it is
\* empty, whatever the entries before it.
C1_ShapePerEntry ==
    IsCall("WithReleaseStrategy") =>
        LET entries == lastCall.arg.Params
            added == Appended(Len(entries))
        IN \A i \in 1..Len(entries) :
               IF Len(entries[i].Values) > 0
               THEN /\ added[i].Value.Type = ParamTypeArray
                    /\ added[i].Value.ArrayVal = entries[i].Values
               ELSE /\ added[i].Value.Type = ParamTypeString
                    /\ added[i].Value.StringVal = entries[i].Value

\* C2: every mutator is total: no call, whatever its input, ends in a panic.
C2_MutatorsTotal == panicked = FALSE

\* C3: every parameter of the list has only the slot named by its shape tag
\* populated: a scalar has no list value and a list has no scalar value.
C3_OneSlotPopulated ==
    \A i \in DOMAIN params :
        /\ params[i].Value.Type \in {ParamTypeString, ParamTypeArray}
        /\ params[i].Value.Type = ParamTypeString => params[i].Value.ArrayVal = Empty
        /\ params[i].Value.Type = ParamTypeArray =>
               /\ params[i].Value.StringVal = Empty
               /\ params[i].Value.ArrayVal # Empty

NoHalfBinding ==
    \A i \in DOMAIN workspaces :
        workspaces[i].Name # Empty /\ workspaces[i].ClaimName # Empty

\* the name and claim the most recent call passed to WithWorkspace, for the
\* two mutators that reach it
WorkspaceRequest(call) ==
    IF call.op = "WithWorkspace"
    THEN [name |-> call.arg.name, claim |-> call.arg.persistentVolumeClaim]
    ELSE [name |-> env.DEFAULT_RELEASE_WORKSPACE_NAME,
          claim |-> IF call.arg.PersistentVolumeClaim = Empty
                    THEN env.DEFAULT_RELEASE_PVC
                    ELSE call.arg.PersistentVolumeClaim]

AttachesWorkspace(call) == call.op \in {"WithWorkspace", "WithReleaseStrategy"}

\* C4 as stated: an empty name or claim leaves the bindings unchanged, a
\* non-empty pair leaves exactly one binding with that name and claim in the
\* specification, and no binding with an empty name or claim is ever present.
C4_ExactlyOneBinding ==
    /\ [](NoHalfBinding /\
          (AttachesWorkspace(lastCall) =>
              LET w == WorkspaceRequest(lastCall)
              IN (w.name # Empty /\ w.claim # Empty) =>
                     CountBinding(workspaces, w.name, w.claim) = 1))
    /\ [][AttachesWorkspace(lastCall') =>
              LET w == WorkspaceRequest(lastCall')
              IN (w.name = Empty \/ w.claim = Empty) => workspaces' = workspaces]_vars

\* C4 amended: an empty name or claim leaves the bindings unchanged, a non-empty
\* pair appends one binding with that name and claim after the bindings already
\* there (one more than before, so exactly one only if there was none), no
\* other mutator touches the bindings, and no binding with an empty name or
\* claim is ever present.
C4_BindingAppended ==
    /\ []NoHalfBinding
    /\ [][IF AttachesWorkspace(lastCall')
          THEN LET w == WorkspaceRequest(lastCall')
               IN IF w.name = Empty \/ w.claim = Empty
                  THEN workspaces' = workspaces
                  ELSE /\ workspaces' =
                              workspaces \o <<[Name |-> w.name, ClaimName |-> w.claim]>>
                       /\ CountBinding(workspaces', w.name, w.claim) =
                              CountBinding(workspaces, w.name, w.claim) + 1
          ELSE workspaces' = workspaces]_vars

\* a second attachment of the same name and claim has added a second binding
C4_Witness ==
    /\ IsCall("WithWorkspace")
    /\ lastCall.arg.name # Empty
    /\ lastCall.arg.persistentVolumeClaim # Empty
    /\ CountBinding(workspaces, lastCall.arg.name, lastCall.arg.persistentVolumeClaim) = 2

\* C5: the pipeline reference set by WithReleaseStrategy is a direct-name
\* reference to the template name, with no resolver, when the bundle locator is
\* empty, and otherwise a "bundles" resolver reference with no direct name and
\* exactly the scalar parameters bundle, kind = "pipeline" and name, in that order.
C5_PipelineRefForms ==
    IsCall("WithReleaseStrategy") =>
        /\ Len(pipelineRef) = 1
        /\ LET ref == pipelineRef[1]
               B == lastCall.arg.Bundle
               P == lastCall.arg.Pipeline
           IN IF B = Empty
              THEN /\ ref.Name = P
                   /\ ref.ResolverRef.Resolver = Empty
                   /\ ref.ResolverRef.Params = <<>>
              ELSE /\ ref.Name = Empty
                   /\ ref.ResolverRef.Resolver = Str("bundles")
                   /\ Len(ref.ResolverRef.Params) = 3
                   /\ [i \in 1..3 |-> ref.ResolverRef.Params[i].Name] =
                          <<Str("bundle"), Str("kind"), Str("name")>>
                   /\ [i \in 1..3 |-> ref.ResolverRef.Params[i].Value.StringVal] =
                          <<B, Str("pipeline"), P>>
                   /\ \A i \in 1..3 :
                          ref.ResolverRef.Params[i].Value.Type = ParamTypeString

C5_Witness ==
    /\ IsCall("WithReleaseStrategy")
    /\ lastCall.arg.Bundle # Empty
    /\ lastCall.arg.Pipeline # Empty
    /\ Len(pipelineRef) = 1
    /\ Len(pipelineRef[1].ResolverRef.Params) = 3

LabelsOf(release, applicationName) ==
    /\ DOMAIN labels =
           {PipelinesTypeLabel, ReleaseNameLabel, ReleaseNamespaceLabel,
            ApplicationNameLabel} \cup
           {k \in DOMAIN release.Labels : HasPrefix(k, PipelinesAsCodePrefix)}
    /\ labels[PipelinesTypeLabel] = Str("release")
    /\ labels[ReleaseNameLabel] = release.Name
    /\ labels[ReleaseNamespaceLabel] = release.Namespace
    /\ labels[ApplicationNameLabel] = applicationName
    /\ \A k \in DOMAIN release.Labels :
           HasPrefix(k, PipelinesAsCodePrefix) => labels[k] = release.Labels[k]

\* C6: after WithReleaseAndApplicationMetadata the label mapping is exactly the
\* fixed four entries plus the release's labels that carry the prefix, whatever
\* it held before, and a second call with the same arguments leaves it unchanged.
C6_LabelsExact ==
    /\ [](IsCall("WithReleaseAndApplicationMetadata") =>
              LabelsOf(lastCall.arg.release, lastCall.arg.applicationName))
    /\ [][(/\ IsCall("WithReleaseAndApplicationMetadata")
           /\ lastCall'.op = "WithReleaseAndApplicationMetadata"
           /\ lastCall'.arg = lastCall.arg) => labels' = labels]_vars

\* the labels of a release without prefixed labels, attached after those of a
\* release with one: the annotation copied by the earlier call is still there,
\* its label is not
C6_Witness ==
    /\ IsCall("WithReleaseAndApplicationMetadata")
    /\ DOMAIN lastCall.arg.release.Labels = {}
    /\ PacUrl \in DOMAIN annotations
    /\ PacSha \notin DOMAIN labels
    /\ Cardinality(DOMAIN labels) = 4

\* the names the most recent call appends, in order; a call that panicked
\* appended nothing
AppendedNames(call, didPanic) ==
    CASE call.op = "WithExtraParam" -> <<call.arg.name>>
      [] call.op = "WithEnterpriseContractConfigMap" ->
             << Str("verify_ec_task_git_url"), Str("verify_ec_task_git_revision"),
                Str("verify_ec_task_git_pathInRepo") >>
      [] call.op = "WithEnterpriseContractPolicy" ->
             IF didPanic
             THEN <<>>
             ELSE << <<ToLower(Head(call.arg.Kind))>> \o Tail(call.arg.Kind) >>
      [] call.op = "WithObjectReferences" ->
             [i \in 1..Len(call.arg) |-> StringsToLower(call.arg[i].Kind)]
      [] call.op = "WithReleaseStrategy" ->
             [i \in 1..Len(call.arg.Params) |-> call.arg.Params[i].Name]
      [] OTHER -> <<>>

\* C7: every call leaves the parameters already in the list in place and adds,
\* after them, one parameter per append it makes, named as appended and in
\* the order of the appends: nothing is deduplicated, merged or reordered.
C7_AppendsOnly ==
    [][LET names == AppendedNames(lastCall', panicked')
       IN /\ Len(params') = Len(params) + Len(names)
          /\ SubSeq(params', 1, Len(params)) = params
          /\ \A i \in 1..Len(names) : params'[Len(params) + i].Name = names[i]
          /\ lastCall'.op = "WithExtraParam" =>
                 params'[Len(params')].Value = lastCall'.arg.value]_vars

\* two parameters of the same name are both in the list
C7_Witness ==
    \E i, j \in DOMAIN params : i < j /\ params[i].Name = params[j].Name

LowerFirst(s) == IF s = Empty THEN Empty ELSE <<ToLower(s[1])>> \o Tail(s)

\* C8: WithEnterpriseContractPolicy appends exactly one scalar parameter, named
\* by the policy's kind with its first character lower-cased and carrying the
\* serialized policy specification.
C8_PolicyParam ==
    [][lastCall'.op = "WithEnterpriseContractPolicy" =>
           params' = Append(params,
               [Name |-> LowerFirst(lastCall'.arg.Kind),
                Value |-> [Type |-> ParamTypeString,
                           StringVal |-> Marshal(lastCall'.arg.Spec),
                           ArrayVal |-> Empty]])]_vars

\* C9: no mutator changes the generated-name prefix or the namespace.
C9_IdentityKept ==
    [][generateName' = generateName /\ namespace' = namespace]_vars

\* a run owned by a release of another namespace, after two mutators
C9_Witness ==
    /\ ncalls >= 2
    /\ \E release \in Releases :
           HasOwner(release) /\ release.Namespace # namespace
    /\ generateName = Str("release") \o <<"-">>

====
